---- MODULE Spec2Model ----
(***************************************************************************)
(* Model of LRUCache (10_system_design_dsa/lru_cache_design/lru_cache.py): *)
(* a dict `cache` from keys to Node objects and a doubly linked list of    *)
(* Node objects between two dummy nodes, head (MRU side) and tail (LRU     *)
(* side).  Node objects live in `heap`, a function from object identities  *)
(* to records; a reference is an identity, None is the identity 0.         *)
(***************************************************************************)
EXTENDS Integers, Sequences, FiniteSets, TLC

\* ---------------------------------------------------------------- bounds
MaxCap == 2          \* largest capacity passed to the constructor
MaxKey == 2          \* keys are 0..MaxKey (0 is also the dummy nodes' key)
MaxVal == 0          \* values are -1..MaxVal (-1 is also get's miss result)
MaxCalls == 2        \* calls the concurrent callers make in all

Capacities == (-1)..MaxCap
Keys == 0..MaxKey
Vals == (-1)..MaxVal

\* One capacity's worth of entries, the node a put allocates before it
\* evicts, and the two dummy nodes.
MaxNodes == (IF MaxCap > 0 THEN MaxCap ELSE 0) + 3
NodeIds == 1..MaxNodes

None == 0            \* Python's None, as a reference
head == 1            \* identity of self.head
tail == 2            \* identity of self.tail

VARIABLES
    capacity,    \* self.capacity
    cache,       \* self.cache: key -> identity of its Node
    heap,        \* the live Node objects: identity -> [key, val, prev, next]
    lastOp,      \* the call that returned last: [name, key, value, present,
                 \* ret, err, cost, peak, removed]; present: the key was in
                 \* self.cache at the call
    evicted,     \* history: keys the last call removed from self.cache
    touchOrder,  \* history: keys ever touched (get hit or put), latest first
    lastPut,     \* history: key -> value of the most recent put of that key
    prevHit,     \* history: the keys the call before the last one found by get
    insertOnly,  \* history: every call so far was a put of a new key
    threads,     \* concurrent callers: thread -> [pc, ctx, key, value, node,
                 \* prev, nxt, made, err], the line it is at, its locals and
                 \* the number of calls it has made
    overlapped   \* history: a call began while another call was running

vars == <<capacity, cache, heap, lastOp, evicted, touchOrder, lastPut,
          prevHit, insertOnly, threads, overlapped>>

\* ------------------------------------------------------------- observers
\* The nodes met by following next from n, up to the tail dummy.
RECURSIVE Walk(_, _, _)
Walk(h, n, fuel) ==
    IF n = None \/ n = tail \/ n \notin DOMAIN h \/ fuel = 0 THEN <<>>
    ELSE <<n>> \o Walk(h, h[n].next, fuel - 1)

\* The real nodes read from head.next to tail.prev, and their keys.
ListNodes(h) == Walk(h, h[head].next, Cardinality(DOMAIN h))
ListKeys(h) ==
    LET nodes == ListNodes(h) IN [i \in DOMAIN nodes |-> h[nodes[i]].key]

Range(s) == {s[i] : i \in DOMAIN s}
NoDuplicates(s) == \A i, j \in DOMAIN s : s[i] = s[j] => i = j

\* ------------------------------------------------------------ the program
\* Node.__init__
Node(key, val) == [key |-> key, val |-> val, prev |-> None, next |-> None]

EmptyDict == [k \in {} |-> None]

\* The state of one call in progress: the object's fields, the value
\* returned (a one-element tuple; <<>> is no value, Python's None) and the
\* exception raised, if any.  Once err is set the rest of the call is
\* skipped.  Three measurements of the call so far: cost, the number of
\* prev/next reads and writes and of dict operations executed; peak, the
\* largest len(self.cache) seen; removed, the nodes passed to _remove.
Machine(cap, c, h) ==
    [capacity |-> cap, cache |-> c, heap |-> h, ret |-> <<>>, err |-> "none",
     cost |-> 0, peak |-> Cardinality(DOMAIN c), removed |-> {}]

\* n more link accesses or dict operations have been executed.
Spend(m, n) == [m EXCEPT !.cost = @ + n]

\* LRUCache.__init__
LRUCacheInit(cap) ==
    Machine(cap, EmptyDict,
            (head :> [Node(0, 0) EXCEPT !.next = tail]) @@
            (tail :> [Node(0, 0) EXCEPT !.prev = head]))

Raise(m, e) == IF m.err = "none" THEN [m EXCEPT !.err = e] ELSE m

\* _remove that rewrites prev.next and forgets nxt.prev.
_remove_forwardOnly(m, node) ==
    IF m.err # "none" THEN m
    ELSE IF node = None THEN Raise(m, "AttributeError")
    ELSE LET prev == m.heap[node].prev
             nxt  == m.heap[node].next
             m1   == [Spend(m, 2) EXCEPT !.removed = @ \cup {node}]
         IN  IF prev = None THEN Raise(m1, "AttributeError")
             ELSE [Spend(m1, 1) EXCEPT !.heap = [m.heap EXCEPT ![prev].next = nxt]]

\* LRUCache._remove
_remove(m, node) ==
    IF m.err # "none" THEN m
    ELSE IF node = None THEN Raise(m, "AttributeError")
    ELSE LET prev == m.heap[node].prev
             nxt  == m.heap[node].next
             m1   == [Spend(m, 2) EXCEPT !.removed = @ \cup {node}]
             h1   == [m.heap EXCEPT ![prev].next = nxt]
         IN  IF prev = None THEN Raise(m1, "AttributeError")
             ELSE IF nxt = None
             THEN Raise([Spend(m1, 1) EXCEPT !.heap = h1], "AttributeError")
             ELSE [Spend(m1, 2) EXCEPT !.heap = [h1 EXCEPT ![nxt].prev = prev]]

\* _add that links the node before the tail dummy instead of after head.
_add_atTail(m, node) ==
    IF m.err # "none" THEN m
    ELSE LET prv == m.heap[tail].prev
             h1  == [m.heap EXCEPT ![tail].prev = node]
             h2  == [h1 EXCEPT ![node].next = tail]
             h3  == [h2 EXCEPT ![node].prev = prv]
         IN  IF prv = None
             THEN Raise([Spend(m, 4) EXCEPT !.heap = h3], "AttributeError")
             ELSE [Spend(m, 5) EXCEPT !.heap = [h3 EXCEPT ![prv].next = node]]

\* LRUCache._add
_add(m, node) ==
    IF m.err # "none" THEN m
    ELSE LET nxt == m.heap[head].next
             h1  == [m.heap EXCEPT ![head].next = node]
             h2  == [h1 EXCEPT ![node].prev = head]
             h3  == [h2 EXCEPT ![node].next = nxt]
         IN  IF nxt = None
             THEN Raise([Spend(m, 4) EXCEPT !.heap = h3], "AttributeError")
             ELSE [Spend(m, 5) EXCEPT !.heap = [h3 EXCEPT ![nxt].prev = node]]

\* A fresh object identity: Node(key, value) never reuses the identity of an
\* object that is still referenced.
NewId(h) ==
    LET free == NodeIds \ DOMAIN h
    IN  IF free = {} THEN None
        ELSE CHOOSE n \in free : \A o \in free : n <= o

\* node = Node(key, value)
Alloc(m, node, key, value) ==
    IF m.err # "none" THEN m
    ELSE IF node = None THEN Raise(m, "MemoryError")
    ELSE [m EXCEPT !.heap = (node :> Node(key, value)) @@ m.heap]

\* An assignment that keeps the node a key already maps to (setdefault).
SetItem_setdefault(m, key, node) ==
    IF m.err # "none" THEN m
    ELSE LET c == m.cache @@ (key :> node)
             n == Cardinality(DOMAIN c)
         IN  [Spend(m, 1) EXCEPT !.cache = c,
                                 !.peak = IF n > @ THEN n ELSE @]

\* self.cache[key] = node
SetItem(m, key, node) ==
    IF m.err # "none" THEN m
    ELSE LET c == (key :> node) @@ m.cache
             n == Cardinality(DOMAIN c)
         IN  [Spend(m, 1) EXCEPT !.cache = c,
                                 !.peak = IF n > @ THEN n ELSE @]

\* get that also creates an entry for a key it does not find.
get_fillOnMiss(m, key) ==
    IF key \in DOMAIN m.cache
    THEN LET node == m.cache[key]
             m2   == _add(_remove(Spend(m, 2), node), node)
         IN  IF m2.err = "none" THEN [m2 EXCEPT !.ret = <<m2.heap[node].val>>]
             ELSE m2
    ELSE LET node == NewId(m.heap)
             m2   == SetItem(_add(Alloc(m, node, key, -1), node), key, node)
         IN  IF m2.err = "none" THEN [m2 EXCEPT !.ret = <<-1>>] ELSE m2

\* get that unlinks the node it finds and does not link it again.
get_removeOnly(m, key) ==
    IF key \in DOMAIN m.cache
    THEN LET node == m.cache[key]
             m2   == _remove(Spend(m, 2), node)
         IN  IF m2.err = "none" THEN [m2 EXCEPT !.ret = <<m2.heap[node].val>>]
             ELSE m2
    ELSE [Spend(m, 1) EXCEPT !.ret = <<-1>>]

\* get that returns the value without moving the node to the head.
get_noRefresh(m, key) ==
    IF key \in DOMAIN m.cache
    THEN [m EXCEPT !.ret = <<m.heap[m.cache[key]].val>>]
    ELSE [m EXCEPT !.ret = <<-1>>]

\* LRUCache.get
get(m, key) ==
    IF key \in DOMAIN m.cache
    THEN LET node == m.cache[key]
             m2   == _add(_remove(Spend(m, 2), node), node)
         IN  IF m2.err = "none" THEN [m2 EXCEPT !.ret = <<m2.heap[node].val>>]
             ELSE m2
    ELSE [Spend(m, 1) EXCEPT !.ret = <<-1>>]

\* del self.cache[key]
DelItem(m, key) ==
    IF m.err # "none" THEN m
    ELSE IF key \notin DOMAIN m.cache THEN Raise(Spend(m, 1), "KeyError")
    ELSE [Spend(m, 1) EXCEPT
              !.cache = [k \in DOMAIN m.cache \ {key} |-> m.cache[k]]]

\* Eviction that takes the node after head (the most recent one).
Evict_mru(m) ==
    IF m.err # "none" THEN m
    ELSE LET lru == m.heap[head].next
             m1  == _remove(m, lru)
         IN  IF m1.err # "none" THEN m1 ELSE DelItem(m1, m1.heap[lru].key)

\* Eviction that unlinks the node and leaves its key in the dict.
Evict_noDel(m) ==
    IF m.err # "none" THEN m
    ELSE _remove(m, m.heap[tail].prev)

\* Eviction that takes the tail dummy itself for the least recent node.
Evict_tail(m) ==
    IF m.err # "none" THEN m
    ELSE LET m1 == _remove(m, tail)
         IN  IF m1.err # "none" THEN m1 ELSE DelItem(m1, m1.heap[tail].key)

\* Eviction that finds the last real node by following next from head.
Evict_scan(m) ==
    IF m.err # "none" THEN m
    ELSE LET nodes == ListNodes(m.heap)
             lru   == IF nodes = <<>> THEN head ELSE nodes[Len(nodes)]
             m1    == _remove(Spend(m, Len(nodes) + 1), lru)
         IN  IF m1.err # "none" THEN m1 ELSE DelItem(m1, m1.heap[lru].key)

\* The eviction branch of put: lru = self.tail.prev; self._remove(lru);
\* del self.cache[lru.key]
Evict(m) ==
    IF m.err # "none" THEN m
    ELSE LET lru == m.heap[tail].prev
             m1  == _remove(Spend(m, 1), lru)
         IN  IF m1.err # "none" THEN m1 ELSE DelItem(m1, m1.heap[lru].key)

\* The capacity test, off by one upwards and downwards.
OverCapacity_offByOne(m) == Cardinality(DOMAIN m.cache) > m.capacity + 1
OverCapacity_atCapacity(m) == Cardinality(DOMAIN m.cache) >= m.capacity

\* len(self.cache) > self.capacity
OverCapacity(m) == Cardinality(DOMAIN m.cache) > m.capacity

\* put that moves the node of a key it finds and keeps the old value.
put_keepValue(m, key, value) ==
    IF key \in DOMAIN m.cache
    THEN LET node == m.cache[key] IN _add(_remove(m, node), node)
    ELSE LET node == NewId(m.heap)
             m4   == SetItem(_add(Alloc(m, node, key, value), node), key, node)
         IN  IF m4.err = "none" /\ OverCapacity(m4) THEN Evict(m4) ELSE m4

\* put that makes room before it inserts: it evicts when the cache is full
\* at entry, also when the cache is empty.
put_evictFirst(m, key, value) ==
    LET m1   == IF key \in DOMAIN m.cache THEN _remove(m, m.cache[key]) ELSE m
        m2   == IF m1.err = "none"
                     /\ Cardinality(DOMAIN m1.cache) >= m1.capacity
                THEN Evict(m1) ELSE m1
        node == NewId(m2.heap)
    IN  SetItem(_add(Alloc(m2, node, key, value), node), key, node)

\* LRUCache.put
put(m, key, value) ==
    LET m1   == IF key \in DOMAIN m.cache
                THEN _remove(Spend(m, 2), m.cache[key]) ELSE Spend(m, 1)
        node == NewId(m1.heap)
        m2   == Alloc(m1, node, key, value)
        m3   == _add(m2, node)
        m4   == SetItem(m3, key, node)
        m5   == IF m4.err = "none" THEN Spend(m4, 1) ELSE m4
    IN  IF m5.err = "none" /\ OverCapacity(m5) THEN Evict(m5) ELSE m5

\* ------------------------------------------------------ object lifetime
\* Objects referenced from the cache object or, through prev/next, from such
\* an object stay alive; the others are collected when the call returns.
Roots(m) == {head, tail} \cup {m.cache[k] : k \in DOMAIN m.cache}

RECURSIVE Closure(_, _)
Closure(h, S) ==
    LET T == S \cup (({h[n].prev : n \in S} \cup {h[n].next : n \in S}) \ {None})
    IN  IF T = S THEN S ELSE Closure(h, T)

RECURSIVE Ascending(_)
Ascending(S) ==
    IF S = {} THEN <<>>
    ELSE LET x == CHOOSE x \in S : \A y \in S : x <= y
         IN  <<x>> \o Ascending(S \ {x})

\* An object's identity is observable only through `is`; between calls the
\* live objects are renamed to the identities 1, 2, 3, ... in the order
\* head, tail, the listed nodes from head.next on, then any other live
\* object, and every reference is renamed with them.
Collect(m) ==
    LET live   == Closure(m.heap, Roots(m))
        walk   == ListNodes(m.heap)
        listed == IF NoDuplicates(walk) /\ head \notin Range(walk)
                      /\ Range(walk) \subseteq live
                  THEN walk ELSE <<>>
        ord    == <<head, tail>> \o listed
                      \o Ascending(live \ ({head, tail} \cup Range(listed)))
        new(n) == IF n = None THEN None
                  ELSE CHOOSE i \in DOMAIN ord : ord[i] = n
    IN  [m EXCEPT !.heap = [i \in DOMAIN ord |->
                               [m.heap[ord[i]] EXCEPT !.prev = new(@),
                                                      !.next = new(@)]],
                  !.cache = [k \in DOMAIN m.cache |-> new(m.cache[k])]]

\* --------------------------------------------------------------- history
NoOp ==
    [name |-> "new", key |-> 0, value |-> 0, present |-> FALSE, ret |-> <<>>,
     err |-> "none", cost |-> 0, peak |-> 0, removed |-> {}]

\* Of the nodes passed to _remove only the dummies are recorded: the other
\* identities mean nothing once the call has returned.
OpRec(name, key, value, m) ==
    [name |-> name, key |-> key, value |-> value,
     present |-> key \in DOMAIN cache, ret |-> m.ret, err |-> m.err,
     cost |-> m.cost, peak |-> m.peak, removed |-> m.removed \cap {head, tail}]

\* The sequence s without the element k.
Without(s, k) == SelectSeq(s, LAMBDA x : x # k)

\* k becomes the most recently touched key.
Touch(s, k) == <<k>> \o Without(s, k)

\* The keys the last call found by get: none or one.
LastHit ==
    IF lastOp.name = "get" /\ lastOp.present THEN {lastOp.key} ELSE {}

\* ------------------------------------------------------------ the system
Self == Machine(capacity, cache, heap)

\* The concurrent callers, and a caller that is in no call.
Threads == {1, 2}

IdleThread(made) ==
    [pc |-> "idle", ctx |-> "none", key |-> 0, value |-> 0, node |-> None,
     prev |-> None, nxt |-> None, made |-> made, err |-> "none"]

Init ==
    \E cap \in Capacities :
        LET m == LRUCacheInit(cap)
        IN  /\ capacity = m.capacity
            /\ cache = m.cache
            /\ heap = m.heap
            /\ lastOp = NoOp
            /\ evicted = {}
            /\ touchOrder = <<>>
            /\ lastPut = EmptyDict
            /\ prevHit = {}
            /\ insertOnly = TRUE
            /\ threads = [t \in Threads |-> IdleThread(0)]
            /\ overlapped = FALSE

\* A caller runs cache.get(key); m is the cache object when the call returns.
Get(key) ==
    \E m \in {Collect(get(Self, key))} :
        /\ capacity' = m.capacity
        /\ cache' = m.cache
        /\ heap' = m.heap
        /\ lastOp' = OpRec("get", key, 0, m)
        /\ evicted' = (DOMAIN cache) \ (DOMAIN m.cache)
        /\ touchOrder' = IF key \in DOMAIN cache THEN Touch(touchOrder, key)
                         ELSE touchOrder
        /\ prevHit' = LastHit
        /\ insertOnly' = FALSE
        /\ UNCHANGED <<lastPut, threads, overlapped>>

\* A caller runs cache.put(key, value); m is the cache object when the call
\* returns.
Put(key, value) ==
    \E m \in {Collect(put(Self, key, value))} :
        /\ capacity' = m.capacity
        /\ cache' = m.cache
        /\ heap' = m.heap
        /\ lastOp' = OpRec("put", key, value, m)
        /\ evicted' = ((DOMAIN cache) \cup {key}) \ (DOMAIN m.cache)
        /\ touchOrder' = Touch(touchOrder, key)
        /\ lastPut' = (key :> value) @@ lastPut
        /\ prevHit' = LastHit
        /\ insertOnly' = (insertOnly /\ key \notin DOMAIN lastPut)
        /\ UNCHANGED <<threads, overlapped>>

Next ==
    \/ \E key \in Keys : Get(key)
    \/ \E key \in Keys, value \in Vals : Put(key, value)

Spec == Init /\ [][Next]_vars

\* ------------------------------------------------- concurrent callers
\* Two callers run get and put on the same cache object without a common
\* lock.  Each holds a lock for the key of its call only, so two calls on
\* different keys run at the same time, interleaved line by line: every
\* step below is one source line, named after its number, and does at most
\* one link rewrite or one dict update.
history == <<lastOp, evicted, touchOrder, lastPut, prevHit, insertOnly>>

Active(t) == threads[t].pc # "idle"

\* Identities for the nodes the concurrent calls allocate.
ConcNodeIds == 1..(2 + MaxCalls)

ConcNewId(h) ==
    LET free == ConcNodeIds \ DOMAIN h
    IN  CHOOSE n \in free : \A o \in free : n <= o

\* Thread t goes to line pc.
Goto(t, pc) == threads' = [threads EXCEPT ![t].pc = pc]

\* The call of thread t returns, or ends with exception e.
Return(t, e) ==
    threads' = [threads EXCEPT ![t] = [IdleThread(threads[t].made)
                                           EXCEPT !.err = e]]

\* Thread t takes the lock of key and enters the call.
Begin(t, op, key, value) ==
    /\ ~Active(t)
    /\ threads[1].made + threads[2].made < MaxCalls
    /\ \A o \in Threads \ {t} : Active(o) => threads[o].key # key
    /\ threads' = [threads EXCEPT ![t] =
                       [IdleThread(threads[t].made + 1) EXCEPT
                            !.pc = IF op = "get" THEN "33" ELSE "41",
                            !.ctx = op, !.key = key, !.value = value]]
    /\ overlapped' = (overlapped \/ \E o \in Threads \ {t} : Active(o))
    /\ UNCHANGED <<capacity, cache, heap, history>>

\* The concurrent puts all store the value 0: no link and no dict key
\* depends on the value stored.
BeginGet(t) == \E key \in Keys : Begin(t, "get", key, 0)
BeginPut(t) == \E key \in Keys : Begin(t, "put", key, 0)

\* _remove, lines 19-22: prev = node.prev
Line19(t) ==
    /\ threads[t].pc = "19"
    /\ IF threads[t].node = None THEN Return(t, "AttributeError")
       ELSE threads' = [threads EXCEPT ![t].prev = heap[threads[t].node].prev,
                                       ![t].pc = "20"]
    /\ UNCHANGED <<capacity, cache, heap, history, overlapped>>

\* nxt = node.next
Line20(t) ==
    /\ threads[t].pc = "20"
    /\ threads' = [threads EXCEPT ![t].nxt = heap[threads[t].node].next,
                                  ![t].pc = "21"]
    /\ UNCHANGED <<capacity, cache, heap, history, overlapped>>

\* prev.next = nxt
Line21(t) ==
    /\ threads[t].pc = "21"
    /\ IF threads[t].prev = None
       THEN Return(t, "AttributeError") /\ UNCHANGED heap
       ELSE /\ heap' = [heap EXCEPT ![threads[t].prev].next = threads[t].nxt]
            /\ Goto(t, "22")
    /\ UNCHANGED <<capacity, cache, history, overlapped>>

\* The line after a call of _remove returns: _add in get (line 36), the
\* allocation in put (line 44), the del of the eviction (line 52).
AfterRemove(ctx) ==
    IF ctx = "get" THEN "26" ELSE IF ctx = "put" THEN "44" ELSE "52"

\* nxt.prev = prev
Line22(t) ==
    /\ threads[t].pc = "22"
    /\ IF threads[t].nxt = None
       THEN Return(t, "AttributeError") /\ UNCHANGED heap
       ELSE /\ heap' = [heap EXCEPT ![threads[t].nxt].prev = threads[t].prev]
            /\ Goto(t, AfterRemove(threads[t].ctx))
    /\ UNCHANGED <<capacity, cache, history, overlapped>>

\* _add, lines 26-30: nxt = self.head.next
Line26(t) ==
    /\ threads[t].pc = "26"
    /\ threads' = [threads EXCEPT ![t].nxt = heap[head].next, ![t].pc = "27"]
    /\ UNCHANGED <<capacity, cache, heap, history, overlapped>>

\* self.head.next = node
Line27(t) ==
    /\ threads[t].pc = "27"
    /\ heap' = [heap EXCEPT ![head].next = threads[t].node]
    /\ Goto(t, "28")
    /\ UNCHANGED <<capacity, cache, history, overlapped>>

\* node.prev = self.head
Line28(t) ==
    /\ threads[t].pc = "28"
    /\ heap' = [heap EXCEPT ![threads[t].node].prev = head]
    /\ Goto(t, "29")
    /\ UNCHANGED <<capacity, cache, history, overlapped>>

\* node.next = nxt
Line29(t) ==
    /\ threads[t].pc = "29"
    /\ heap' = [heap EXCEPT ![threads[t].node].next = threads[t].nxt]
    /\ Goto(t, "30")
    /\ UNCHANGED <<capacity, cache, history, overlapped>>

\* nxt.prev = node; then get returns node.val (line 37) and put goes on
\* with line 46.
Line30(t) ==
    /\ threads[t].pc = "30"
    /\ IF threads[t].nxt = None
       THEN Return(t, "AttributeError") /\ UNCHANGED heap
       ELSE /\ heap' = [heap EXCEPT ![threads[t].nxt].prev = threads[t].node]
            /\ IF threads[t].ctx = "get" THEN Return(t, "none")
               ELSE Goto(t, "46")
    /\ UNCHANGED <<capacity, cache, history, overlapped>>

\* get: if key in self.cache, else return -1
Line33(t) ==
    /\ threads[t].pc = "33"
    /\ IF threads[t].key \in DOMAIN cache THEN Goto(t, "34")
       ELSE Return(t, "none")
    /\ UNCHANGED <<capacity, cache, heap, history, overlapped>>

\* get: node = self.cache[key]; self._remove(node)
Line34(t) ==
    /\ threads[t].pc = "34"
    /\ IF threads[t].key \notin DOMAIN cache THEN Return(t, "KeyError")
       ELSE threads' = [threads EXCEPT ![t].node = cache[threads[t].key],
                                       ![t].pc = "19"]
    /\ UNCHANGED <<capacity, cache, heap, history, overlapped>>

\* put: if key in self.cache
Line41(t) ==
    /\ threads[t].pc = "41"
    /\ IF threads[t].key \in DOMAIN cache THEN Goto(t, "42") ELSE Goto(t, "44")
    /\ UNCHANGED <<capacity, cache, heap, history, overlapped>>

\* put: self._remove(self.cache[key])
Line42(t) ==
    /\ threads[t].pc = "42"
    /\ IF threads[t].key \notin DOMAIN cache THEN Return(t, "KeyError")
       ELSE threads' = [threads EXCEPT ![t].node = cache[threads[t].key],
                                       ![t].pc = "19"]
    /\ UNCHANGED <<capacity, cache, heap, history, overlapped>>

\* put: node = Node(key, value); self._add(node)
Line44(t) ==
    /\ threads[t].pc = "44"
    /\ LET node == ConcNewId(heap)
       IN  /\ heap' = (node :> Node(threads[t].key, threads[t].value)) @@ heap
           /\ threads' = [threads EXCEPT ![t].node = node, ![t].pc = "26"]
    /\ UNCHANGED <<capacity, cache, history, overlapped>>

\* put: self.cache[key] = node
Line46(t) ==
    /\ threads[t].pc = "46"
    /\ cache' = (threads[t].key :> threads[t].node) @@ cache
    /\ Goto(t, "48")
    /\ UNCHANGED <<capacity, heap, history, overlapped>>

\* put: if len(self.cache) > self.capacity
Line48(t) ==
    /\ threads[t].pc = "48"
    /\ IF Cardinality(DOMAIN cache) > capacity THEN Goto(t, "50")
       ELSE Return(t, "none")
    /\ UNCHANGED <<capacity, cache, heap, history, overlapped>>

\* put: lru = self.tail.prev; self._remove(lru)
Line50(t) ==
    /\ threads[t].pc = "50"
    /\ threads' = [threads EXCEPT ![t].node = heap[tail].prev,
                                  ![t].ctx = "evict", ![t].pc = "19"]
    /\ UNCHANGED <<capacity, cache, heap, history, overlapped>>

\* Line 52 left out: the evicted key stays in the dict.
Line52_noDel(t) ==
    /\ threads[t].pc = "52"
    /\ Return(t, "none")
    /\ UNCHANGED <<capacity, cache, heap, history, overlapped>>

\* put: del self.cache[lru.key]
Line52(t) ==
    /\ threads[t].pc = "52"
    /\ LET key == heap[threads[t].node].key
       IN  IF key \notin DOMAIN cache
           THEN Return(t, "KeyError") /\ UNCHANGED cache
           ELSE /\ cache' = [k \in DOMAIN cache \ {key} |-> cache[k]]
                /\ Return(t, "none")
    /\ UNCHANGED <<capacity, heap, history, overlapped>>

NextConc ==
    \E t \in Threads :
        \/ BeginGet(t) \/ BeginPut(t)
        \/ Line19(t) \/ Line20(t) \/ Line21(t) \/ Line22(t)
        \/ Line26(t) \/ Line27(t) \/ Line28(t) \/ Line29(t) \/ Line30(t)
        \/ Line33(t) \/ Line34(t)
        \/ Line41(t) \/ Line42(t) \/ Line44(t) \/ Line46(t) \/ Line48(t)
        \/ Line50(t) \/ Line52(t)

SpecConc == Init /\ [][NextConc]_vars

\* ---------------------------------------------------------------- claims
\* The keys of touchOrder that are in S, latest touch first.
ByRecency(S) == SelectSeq(touchOrder, LAMBDA k : k \in S)

\* The key of S whose most recent touch is the oldest.
LeastRecent(S) == ByRecency(S)[Len(ByRecency(S))]

\* C1: with capacity N >= 1, after every call the index holds at most N keys.
C1_CapacityBound ==
    capacity >= 1 => Cardinality(DOMAIN cache) <= capacity

\* A put has just evicted from a full cache of capacity 2.
C1_Witness ==
    /\ capacity = 2
    /\ lastOp.name = "put"
    /\ evicted # {}
    /\ Cardinality(DOMAIN cache) = capacity

C3_RoundTrip ==
    /\ \A k \in DOMAIN cache :
           k \in DOMAIN lastPut /\ get(Self, k).ret = <<lastPut[k]>>
    /\ (lastOp.name = "get" /\ lastOp.present)
           => lastOp.ret = <<lastPut[lastOp.key]>>

\* A get has found its key and returned its value while the cache holds
\* another key with a different value and a third key has been evicted.
C3_Witness ==
    /\ lastOp.name = "get" /\ lastOp.present
    /\ lastOp.ret = <<0>>
    /\ Cardinality(DOMAIN cache) = 2
    /\ \E k \in DOMAIN cache : k # lastOp.key /\ lastPut[k] = -1
    /\ DOMAIN lastPut # DOMAIN cache

\* C4: after every call the keys read from head.next to tail.prev are the
\* present keys ordered by their most recent touch, most recent first.
C4_RecencyOrder ==
    ListKeys(heap) = ByRecency(DOMAIN cache)

\* After an eviction of key 2, a get has moved key 0 in front of key 1,
\* which was touched after key 0's previous touch.
C4_Witness ==
    /\ capacity = 2
    /\ lastOp.name = "get" /\ lastOp.present /\ lastOp.key = 0
    /\ prevHit = {1}
    /\ ListKeys(heap) = <<0, 1>>
    /\ touchOrder = <<0, 1, 2>>

\* C5: after every call the keys of the index are the keys of the listed
\* real nodes, each listed once, index[k] is the listed node of key k, and
\* the index has as many keys as the list has real nodes.
C5_IndexOrderConsistent ==
    LET nodes == ListNodes(heap)
        keys  == ListKeys(heap)
    IN  /\ DOMAIN cache = Range(keys)
        /\ NoDuplicates(keys)
        /\ NoDuplicates(nodes)
        /\ \A k \in DOMAIN cache :
               /\ cache[k] \in Range(nodes)
               /\ heap[cache[k]].key = k
        /\ Cardinality(DOMAIN cache) = Len(nodes)

\* A put has replaced the node of a present key in a cache of two entries,
\* after an eviction has happened.
C5_Witness ==
    /\ lastOp.name = "put" /\ lastOp.present
    /\ Cardinality(DOMAIN cache) = 2
    /\ Len(ListNodes(heap)) = 2
    /\ Len(touchOrder) = 3

\* C6: on a fresh cache of capacity N >= 1, puts of pairwise distinct keys
\* and nothing else evict nothing up to the N-th put, and the (N+1)-th put
\* evicts exactly the first-inserted key: the other N keys are present.
C6_PureInsertionEviction ==
    (insertOnly /\ capacity >= 1) =>
        LET n == Len(touchOrder)
        IN  /\ n <= capacity =>
                (evicted = {} /\ DOMAIN cache = Range(touchOrder))
            /\ n = capacity + 1 =>
                /\ evicted = {touchOrder[n]}
                /\ DOMAIN cache = Range(touchOrder) \ {touchOrder[n]}
                /\ Cardinality(DOMAIN cache) = capacity

\* Three distinct keys have been put into a fresh cache of capacity 2.
C6_Witness ==
    /\ insertOnly
    /\ capacity = 2
    /\ Len(touchOrder) = 3
    /\ evicted = {touchOrder[3]}

\* C7: with capacity >= 1, a put on a present key leaves the set of present
\* keys and the index size unchanged, evicts nothing, and get of the key
\* then returns the new value.
C7_ReinsertPresentKey ==
    [][(capacity >= 1 /\ lastOp'.name = "put" /\ lastOp'.present)
       => /\ DOMAIN cache' = DOMAIN cache
          /\ Cardinality(DOMAIN cache') = Cardinality(DOMAIN cache)
          /\ evicted' = {}
          /\ get(Machine(capacity', cache', heap'), lastOp'.key).ret
                 = <<lastOp'.value>>]_vars

\* A put has written the value 0 to a key that a full cache already held.
C7_Witness ==
    /\ capacity = 2
    /\ lastOp.name = "put" /\ lastOp.present
    /\ Cardinality(DOMAIN cache) = capacity
    /\ lastOp.value = 0
    /\ get(Self, lastOp.key).ret = <<0>>

\* C8: get on a key that is not in the index returns the not-found result
\* and changes neither the index nor the list nor any stored value.
C8_AbsentGetIsStable ==
    [][(lastOp'.name = "get" /\ ~lastOp'.present)
       => /\ lastOp'.ret = <<-1>>
          /\ cache' = cache
          /\ heap' = heap
          /\ ListKeys(heap') = ListKeys(heap)]_vars

\* A get has missed a key that was put and evicted earlier, in a cache that
\* holds other keys.
C8_Witness ==
    /\ lastOp.name = "get" /\ ~lastOp.present
    /\ lastOp.key \in DOMAIN lastPut
    /\ lastOp.key \notin DOMAIN cache
    /\ Cardinality(DOMAIN cache) = 2

\* C9: a cache object exists only for a capacity >= 1; construction with a
\* capacity <= 0 fails and produces none.
C9_InvalidCapacityRejected ==
    capacity >= 1

\* C10: the result of get on a present key differs from the result of get on
\* an absent key, whatever value is stored.
C10_MissDistinguishable ==
    \A k \in DOMAIN cache, a \in Keys \ DOMAIN cache :
        get(Self, k).ret # get(Self, a).ret

\* C11: every get and every put completes without raising: no KeyError at
\* del self.cache[lru.key], no None dereferenced as a prev/next link.
C11_NoError ==
    lastOp.err = "none"

\* A put on a full cache of capacity 2 has run the eviction branch.
C11_Witness ==
    /\ lastOp.name = "put"
    /\ lastOp.err = "none"
    /\ evicted # {}
    /\ capacity = 2
    /\ Len(touchOrder) = 3

\* The link accesses of one _remove and of one _add.
RemoveCost == 2 + 2
AddCost == 1 + 4

\* The most a get costs (a hit: the membership test, the lookup, _remove,
\* _add) and the most a put costs (the membership test, _add, the
\* assignment, len, then tail.prev, _remove and del).
GetCostBound == 2 + RemoveCost + AddCost
PutCostBound == 1 + AddCost + 2 + (1 + RemoveCost + 1)

\* C12: the number of link reads and writes and of index operations of a
\* call is bounded by a constant that does not depend on the number of
\* entries; no call walks the list.
C12_ConstantCost ==
    /\ lastOp.name = "get" => lastOp.cost <= GetCostBound
    /\ lastOp.name = "put" => lastOp.cost <= PutCostBound

\* A put has evicted from a full cache of capacity 2 at the full cost.
C12_Witness ==
    /\ capacity = 2
    /\ lastOp.name = "put"
    /\ evicted # {}
    /\ Cardinality(DOMAIN cache) = 2
    /\ lastOp.cost = PutCostBound

\* C13: a put on a present key keeps the same node object in the index: the
\* node the index holds for the key when the call returns is the node it
\* held when the call began.
C13_NodeIdentityPreserved ==
    \A k \in DOMAIN cache, v \in Vals : put(Self, k, v).cache[k] = cache[k]

\* The value stored for each present key.
StoredVals(c, h) == [k \in DOMAIN c |-> h[c[k]].val]

OneEvictionPerPut ==
    lastOp'.name = "put" =>
        /\ (~lastOp'.present /\ Cardinality(DOMAIN cache) = capacity)
               => Cardinality(evicted') = 1
        /\ (~lastOp'.present /\ Cardinality(DOMAIN cache) < capacity)
               => evicted' = {}
        /\ lastOp'.peak <= capacity + 1

\* C15: exactly one eviction per over-capacity put, none below capacity, and
\* at every step inside a put the index holds at most capacity + 1 keys.
C15_OneEvictionPerPut ==
    [][OneEvictionPerPut]_vars

\* The same for the caches whose capacity is not negative.
C15_ForNonNegativeCapacity ==
    [][capacity >= 0 => OneEvictionPerPut]_vars

\* The node a walk from n along next stops at: tail on a well-formed list.
RECURSIVE WalkEnd(_, _, _)
WalkEnd(h, n, fuel) ==
    IF n = None \/ n = tail \/ n \notin DOMAIN h \/ fuel = 0 THEN n
    ELSE WalkEnd(h, h[n].next, fuel - 1)

\* C16: in every state head is the first and tail the last node of the
\* list, neither is referenced from the index, and no call has passed head
\* or tail to _remove: tail.prev is a real node whenever eviction runs.
C16_SentinelsStay ==
    /\ {head, tail} \subseteq DOMAIN heap
    /\ heap[head].prev = None
    /\ heap[tail].next = None
    /\ WalkEnd(heap, heap[head].next, Cardinality(DOMAIN heap)) = tail
    /\ \A k \in DOMAIN cache : cache[k] \notin {head, tail}
    /\ lastOp.removed = {}

\* A put on a cache of capacity 0 has evicted the node it had just linked:
\* tail.prev was that node, not head.
C16_Witness ==
    /\ capacity = 0
    /\ lastOp.name = "put"
    /\ evicted = {lastOp.key}
    /\ lastOp.err = "none"
    /\ heap[head].next = tail

\* C18: with capacity >= 1 the key just written is not the eviction victim:
\* when put(k, v) returns, k is in the index, its node is next to head, and
\* get(k) returns v.
C18_WrittenKeyStays ==
    (capacity >= 1 /\ lastOp.name = "put") =>
        LET k == lastOp.key
        IN  /\ k \in DOMAIN cache
            /\ k \notin evicted
            /\ heap[head].next = cache[k]
            /\ heap[cache[k]].prev = head
            /\ get(Self, k).ret = <<lastOp.value>>

\* A put of a new key into a full cache of capacity 1 has evicted the other
\* key and kept its own.
C18_Witness ==
    /\ capacity = 1
    /\ lastOp.name = "put" /\ ~lastOp.present
    /\ evicted # {}
    /\ DOMAIN cache = {lastOp.key}

\* C19: after every call the list is a well-formed doubly linked chain:
\* following next from head reaches tail without repeating a node, every
\* node n on the chain other than tail has n.next.prev = n, and head.prev
\* and tail.next are None.
C19_WellFormedChain ==
    LET chain == <<head>> \o ListNodes(heap)
    IN  /\ WalkEnd(heap, heap[head].next, Cardinality(DOMAIN heap)) = tail
        /\ NoDuplicates(chain)
        /\ \A i \in DOMAIN chain :
               /\ heap[chain[i]].next \in DOMAIN heap
               /\ heap[heap[chain[i]].next].prev = chain[i]
        /\ heap[head].prev = None
        /\ heap[tail].next = None

\* A get has moved the node next to tail to the front of a two-node list
\* after an eviction: both _remove and _add have rewritten the links of a
\* chain with two real nodes.
C19_Witness ==
    /\ lastOp.name = "get" /\ lastOp.present
    /\ Len(ListNodes(heap)) = 2
    /\ prevHit # {} /\ prevHit # {lastOp.key}
    /\ DOMAIN lastPut # DOMAIN cache

\* C20: a cache built with capacity 0 accepts every put and evicts the key
\* it has just inserted: after every call the index is empty and head and
\* tail are linked to each other, and every get returns not-found.
C20_ZeroCapacity ==
    capacity = 0 =>
        /\ cache = EmptyDict
        /\ heap[head].next = tail
        /\ heap[tail].prev = head
        /\ lastOp.err = "none"
        /\ lastOp.name = "put" => evicted = {lastOp.key}
        /\ lastOp.name = "get" => lastOp.ret = <<-1>>
        /\ \A k \in Keys : get(Self, k).ret = <<-1>>

\* On a cache of capacity 0 a get has missed a key that was put before.
C20_Witness ==
    /\ capacity = 0
    /\ lastOp.name = "get"
    /\ lastOp.key \in DOMAIN lastPut
    /\ lastOp.ret = <<-1>>

\* No caller is inside a call.
Quiescent == \A t \in Threads : ~Active(t)

\* Index and list agree and the links are intact: I1, I3, I5 and the chain
\* of C19, and I2 for a capacity >= 1.
Consistent ==
    /\ C5_IndexOrderConsistent
    /\ C19_WellFormedChain
    /\ capacity >= 1 => Cardinality(DOMAIN cache) <= capacity

\* C17: a lock per key does not protect the cache.  Callers that are inside
\* a call at the same time always hold different keys, and calls that did
\* not overlap leave index and list consistent and raise nothing; callers
\* on different keys whose calls overlap reach a state where index and list
\* disagree or the links are corrupted (C17_Witness).
C17_OnlySerialCallsAreSafe ==
    /\ \A t, o \in Threads :
           (t # o /\ Active(t) /\ Active(o)) => threads[t].key # threads[o].key
    /\ (Quiescent /\ ~overlapped) =>
           (Consistent /\ \A t \in Threads : threads[t].err = "none")

\* On a cache of capacity 2 two puts on different keys have overlapped and
\* returned without an exception, nothing was evicted, and index and list
\* disagree.
C17_Witness ==
    /\ capacity = 2
    /\ Quiescent
    /\ overlapped
    /\ \A t \in Threads : threads[t].made = 1 /\ threads[t].err = "none"
    /\ Cardinality(DOMAIN cache) = 2
    /\ ~Consistent

====
